---- MODULE Spec2Model ----
(***************************************************************************)
(* Planning-poker room engine (internal/engine/engine.go) and the part of  *)
(* the connection handler that writes room data (Server.handleAction,      *)
(* changeType).  Every engine method runs under the engine's mutex, so     *)
(* each method is one atomic action.  The Hub (Hub.Run) is one goroutine   *)
(* that takes one event at a time from its unbuffered channels, so each    *)
(* event it handles is one atomic action as well.                          *)
(***************************************************************************)
EXTENDS Integers, Sequences, FiniteSets, TLC

VARIABLES
    servers,    \* Engine.servers : room id -> PokerServer
    now,        \* the clock read by time.Now()
    usedIds,    \* ids uuid.New() has returned so far (it never repeats one)
    ret,        \* what the last call returned: [err, val]
    assigned,   \* history: room id -> publicIds handed out so far in the room
    caster,     \* history: room id -> (votes key -> recoveryId of the caller that wrote it)
    touched,    \* history: room id -> time of the last call that succeeded on the room
    request,    \* the cardSet string of the room-creation request being served
    Rooms,      \* Hub.Rooms : room id -> set of registered clients
    Send,       \* Client.Send : the messages buffered in each client's channel
    closes,     \* how many times close(client.Send) has run for each client
    conn,       \* each client's connection: "none", "open" (registered), "gone"
    seq,        \* how many broadcasts the Hub has accepted so far
    PlayerId,   \* Client.PlayerId of each client; "" until its join succeeds
    pc,         \* each client's readPump: the request in handleAction and the steps left
    sentClosed  \* the clients whose Send channel was sent to after it was closed

\* The history variables are written only by SpecH and SpecTime, which record
\* them beside the engine's steps; the engine's actions never read them.
hist == <<assigned, caster>>

\* The Hub's state; the engine's methods never touch it.
hub == <<Rooms, Send, closes, conn, seq>>

\* The connections' state outside the Hub; only the handlers write it.
srv == <<PlayerId, pc, sentClosed>>

vars == <<servers, now, usedIds, ret, assigned, caster, touched,
          request, Rooms, Send, closes, conn, seq, PlayerId, pc, sentClosed>>

(***************************************************************************)
(* Bounds and input sets                                                   *)
(***************************************************************************)
MaxPublicId == 2
MaxLen == 3
MaxNow == 62
MaxSeq == 4

\* how many events the handlers submit to the Hub over a run
MaxEvents == 5

\* capacity of Client.Send, make(chan []byte, 256), scaled down
SendCap == 2

\* the age the periodic sweep passes to CleanupOldRooms, in minutes
SweepMaxAge == 60

RoomIds == {"room1"}
UnknownRoom == "room0"
PrivateIds == {"a", "b"}
RecoveryIds == {"r1", "r2"}
Names == {"Ann", "Bob"}
VoteValues == {"5", "x"}
CardSetSpecs == { <<"5", ",", " ", "8">>, <<" ", ",">> }

\* the connections that exist over a run, and the room each one names
\* (Client.RoomId is fixed when the connection is made)
Clients == {"c1", "c2", "c3"}
TwoRooms == {"room1", "room2"}
RoomIdOf(c) == IF c = "c3" THEN "room2" ELSE "room1"

Participant == "Participant"
Observer == "Observer"
PlayerTypes == {Participant, Observer}
Awake == "Awake"

Nil == "nil"
NoVal == "none"
NotOk == "not ok"

ErrRoomNotFound == "room not found"
ErrPlayerNotFound == "player not found"
ErrObserver == "observers cannot vote"
ErrVoteShown == "cannot change vote once revealed"
ErrUnVoteShown == "cannot redact vote once revealed"
ErrEmptyCardSet == "card set cannot be empty"

(***************************************************************************)
(* Go builtins on maps and strings                                         *)
(***************************************************************************)
EmptyMap == [k \in {} |-> NoVal]

MapPut(m, k, v) == [x \in (DOMAIN m) \cup {k} |-> IF x = k THEN v ELSE m[x]]

MapDelete(m, k) == [x \in (DOMAIN m) \ {k} |-> m[x]]

FmtD(n) == ToString(n)

IsSpace(c) == c = " "

RECURSIVE Split(_)
Split(s) ==
    IF \A i \in 1..Len(s) : s[i] # ","
    THEN <<s>>
    ELSE LET i == CHOOSE j \in 1..Len(s) :
                     s[j] = "," /\ \A k \in 1..(j - 1) : s[k] # ","
         IN <<SubSeq(s, 1, i - 1)>> \o Split(SubSeq(s, i + 1, Len(s)))

RECURSIVE TrimSpace(_)
TrimSpace(t) ==
    IF t = <<>> THEN t
    ELSE IF IsSpace(Head(t)) THEN TrimSpace(Tail(t))
    ELSE IF IsSpace(t[Len(t)]) THEN TrimSpace(SubSeq(t, 1, Len(t) - 1))
    ELSE t

RECURSIVE Str(_)
Str(t) == IF t = <<>> THEN "" ELSE Head(t) \o Str(Tail(t))

\* variant: the tokens are kept as they were typed
RECURSIVE CleanCardsUntrimmed(_)
CleanCardsUntrimmed(cards) ==
    IF cards = <<>> THEN <<>>
    ELSE IF TrimSpace(Head(cards)) # <<>>
         THEN <<Str(Head(cards))>> \o CleanCardsUntrimmed(Tail(cards))
         ELSE CleanCardsUntrimmed(Tail(cards))

RECURSIVE CleanCards(_)
CleanCards(cards) ==
    IF cards = <<>> THEN <<>>
    ELSE LET trimmed == TrimSpace(Head(cards))
         IN IF trimmed # <<>>
            THEN <<Str(trimmed)>> \o CleanCards(Tail(cards))
            ELSE CleanCards(Tail(cards))

(***************************************************************************)
(* State after NewEngine()                                                 *)
(***************************************************************************)
EngineInit ==
    /\ servers = EmptyMap
    /\ now = 0
    /\ usedIds = {}
    /\ ret = [err |-> Nil, val |-> NoVal]
    /\ assigned = EmptyMap
    /\ caster = EmptyMap
    /\ touched = EmptyMap

\* State after NewHub(): no room entry, no connection yet
HubInit ==
    /\ Rooms = EmptyMap
    /\ Send = [c \in Clients |-> <<>>]
    /\ closes = [c \in Clients |-> 0]
    /\ conn = [c \in Clients |-> "none"]
    /\ seq = 0

\* no request is being handled
NoReq == [action |-> "", recoveryId |-> "", name |-> "", type |-> "", vote |-> "", publicId |-> 0]

\* readPump waits in ReadMessage
Idle == [todo |-> <<>>, req |-> NoReq, kicked |-> "", seen |-> {}]

\* State of the connections HandleWS makes: PlayerId is the zero string
ServerInit ==
    /\ PlayerId = [c \in Clients |-> ""]
    /\ pc = [c \in Clients |-> Idle]
    /\ sentClosed = {}

Init ==
    /\ EngineInit
    /\ HubInit
    /\ ServerInit
    /\ request = <<>>

Fail(err) ==
    /\ ret' = [err |-> err, val |-> NoVal]
    /\ UNCHANGED <<servers, now, usedIds>>

(***************************************************************************)
(* Engine.CreateRoom                                                       *)
(***************************************************************************)
NewServer(id, cleanedCards) ==
    [ Id |-> id,
      Players |-> EmptyMap,
      CurrentSession |-> [CardSet |-> cleanedCards, Votes |-> EmptyMap, IsShown |-> FALSE],
      LastAccess |-> now ]

\* CreateRoom when uuid.New() draws from the ids in pool
CreateRoomFrom(pool, desiredCardSet) ==
    LET cleanedCards == CleanCards(Split(desiredCardSet))
    IN IF Len(cleanedCards) = 0
       THEN Fail(ErrEmptyCardSet)
       ELSE \E id \in pool \ usedIds :
               /\ servers' = MapPut(servers, id, NewServer(id, cleanedCards))
               /\ usedIds' = usedIds \cup {id}
               /\ ret' = [err |-> Nil, val |-> id]
               /\ UNCHANGED now

CreateRoom(desiredCardSet) == CreateRoomFrom(RoomIds, desiredCardSet)

(***************************************************************************)
(* Engine.GetServer                                                        *)
(***************************************************************************)
GetServer(id) ==
    IF id \in DOMAIN servers
    THEN /\ servers' = [servers EXCEPT ![id].LastAccess = now]
         /\ ret' = [err |-> Nil, val |-> id]
         /\ UNCHANGED <<now, usedIds>>
    ELSE Fail(NotOk)

(***************************************************************************)
(* Engine.JoinRoom                                                         *)
(***************************************************************************)
Max(S) == CHOOSE m \in S : \A x \in S : x <= m

\* variant: the loop compares the connection id instead of the recovery token
RecoveringByConnection(players, recoveryId) ==
    {k \in DOMAIN players : players[k].Id = recoveryId}

\* the keys of the players the recovery loop can stop at
Recovering(players, recoveryId) ==
    {k \in DOMAIN players : players[k].RecoveryId = recoveryId}

\* the existing record after the in-place update
Rejoined(p, privateId, playerName, pType) ==
    [p EXCEPT !.Id = privateId, !.Mode = Awake, !.Name = playerName, !.Type = pType]

\* variant: the old mapping is not removed
ReinsertKeepingOld(players, k, privateId, playerName, pType) ==
    MapPut(players, privateId, Rejoined(players[k], privateId, playerName, pType))

\* the players map after the old mapping is removed and the record reinserted
Reinsert(players, k, privateId, playerName, pType) ==
    MapPut(MapDelete(players, players[k].Id), privateId,
           Rejoined(players[k], privateId, playerName, pType))

\* variant: the next publicId is the player count plus one
NewPublicIdByCount(players) == Cardinality(DOMAIN players) + 1

NewPublicId(players) ==
    IF Cardinality(DOMAIN players) > 0
    THEN Max({players[k].PublicId : k \in DOMAIN players}) + 1
    ELSE 1

NewPlayer(privateId, publicId, recoveryId, playerName, pType) ==
    [ Id |-> privateId,
      PublicId |-> publicId,
      RecoveryId |-> recoveryId,
      Name |-> playerName,
      Type |-> pType,
      Mode |-> Awake ]

JoinRoom(id, recoveryId, playerName, privateId, pType) ==
    IF id \notin DOMAIN servers
    THEN Fail(ErrRoomNotFound)
    ELSE LET players == servers[id].Players
             found == Recovering(players, recoveryId)
         IN IF found # {}
            THEN \E k \in found :
                    /\ servers' = [servers EXCEPT ![id].Players =
                                       Reinsert(players, k, privateId, playerName, pType)]
                    /\ ret' = [err |-> Nil, val |-> privateId]
                    /\ UNCHANGED <<now, usedIds>>
            ELSE LET publicId == NewPublicId(players)
                     player == NewPlayer(privateId, publicId, recoveryId, playerName, pType)
                 IN /\ publicId <= MaxPublicId
                    /\ servers' = [servers EXCEPT ![id].Players = MapPut(players, privateId, player)]
                    /\ ret' = [err |-> Nil, val |-> privateId]
                    /\ UNCHANGED <<now, usedIds>>

(***************************************************************************)
(* Engine.Vote                                                             *)
(***************************************************************************)
VoteErr(S, id, privateId) ==
    IF id \notin DOMAIN S THEN ErrRoomNotFound
    ELSE IF privateId \notin DOMAIN S[id].Players THEN ErrPlayerNotFound
    ELSE IF S[id].Players[privateId].Type = Observer THEN ErrObserver
    ELSE IF S[id].CurrentSession.IsShown THEN ErrVoteShown
    ELSE Nil

\* variant: the vote is stored under the connection id
VoteKeyByPrivateId(player) == player.Id

VoteKey(player) == FmtD(player.PublicId)

\* variant: the vote is written before the reveal check
VoteWrittenFirst(id, privateId, vote) ==
    LET err == VoteErr(servers, id, privateId)
    IN IF err \in {ErrRoomNotFound, ErrPlayerNotFound, ErrObserver}
       THEN Fail(err)
       ELSE LET player == servers[id].Players[privateId]
            IN /\ servers' = [servers EXCEPT ![id].CurrentSession.Votes =
                                  MapPut(@, VoteKey(player), vote)]
               /\ ret' = [err |-> err, val |-> NoVal]
               /\ UNCHANGED <<now, usedIds>>

Vote(id, privateId, vote) ==
    LET err == VoteErr(servers, id, privateId)
    IN IF err # Nil
       THEN Fail(err)
       ELSE LET player == servers[id].Players[privateId]
            IN /\ servers' = [servers EXCEPT ![id].CurrentSession.Votes =
                                  MapPut(@, VoteKey(player), vote)]
               /\ ret' = [err |-> Nil, val |-> NoVal]
               /\ UNCHANGED <<now, usedIds>>

(***************************************************************************)
(* Engine.UnVote                                                           *)
(***************************************************************************)
\* variant: the reveal check is missing
UnVoteErrUnlocked(S, id, privateId) ==
    IF id \notin DOMAIN S THEN ErrRoomNotFound
    ELSE IF privateId \notin DOMAIN S[id].Players THEN ErrPlayerNotFound
    ELSE Nil

UnVoteErr(S, id, privateId) ==
    IF id \notin DOMAIN S THEN ErrRoomNotFound
    ELSE IF S[id].CurrentSession.IsShown THEN ErrUnVoteShown
    ELSE IF privateId \notin DOMAIN S[id].Players THEN ErrPlayerNotFound
    ELSE Nil

\* variant: the whole votes map is emptied
UnVoteAll(id, privateId) ==
    LET err == UnVoteErr(servers, id, privateId)
    IN IF err # Nil
       THEN Fail(err)
       ELSE /\ servers' = [servers EXCEPT ![id].CurrentSession.Votes = EmptyMap]
            /\ ret' = [err |-> Nil, val |-> NoVal]
            /\ UNCHANGED <<now, usedIds>>

UnVote(id, privateId) ==
    LET err == UnVoteErr(servers, id, privateId)
    IN IF err # Nil
       THEN Fail(err)
       ELSE LET key == FmtD(servers[id].Players[privateId].PublicId)
            IN /\ servers' = [servers EXCEPT ![id].CurrentSession.Votes = MapDelete(@, key)]
               /\ ret' = [err |-> Nil, val |-> NoVal]
               /\ UNCHANGED <<now, usedIds>>

(***************************************************************************)
(* Engine.ClearVotes, Engine.ShowVotes                                     *)
(***************************************************************************)
\* variant: the reveal flag is not reset
ClearedStillShown(session) == [session EXCEPT !.Votes = EmptyMap]

Cleared(session) == [session EXCEPT !.Votes = EmptyMap, !.IsShown = FALSE]

ClearVotes(id) ==
    IF id \notin DOMAIN servers
    THEN Fail(ErrRoomNotFound)
    ELSE /\ servers' = [servers EXCEPT ![id].CurrentSession = Cleared(@)]
         /\ ret' = [err |-> Nil, val |-> NoVal]
         /\ UNCHANGED <<now, usedIds>>

\* variant: the reveal flag is set in every room
ShowVotesEverywhere(id) ==
    IF id \notin DOMAIN servers
    THEN Fail(ErrRoomNotFound)
    ELSE /\ servers' = [r \in DOMAIN servers |->
                           [servers[r] EXCEPT !.CurrentSession.IsShown = TRUE]]
         /\ ret' = [err |-> Nil, val |-> NoVal]
         /\ UNCHANGED <<now, usedIds>>

ShowVotes(id) ==
    IF id \notin DOMAIN servers
    THEN Fail(ErrRoomNotFound)
    ELSE /\ servers' = [servers EXCEPT ![id].CurrentSession.IsShown = TRUE]
         /\ ret' = [err |-> Nil, val |-> NoVal]
         /\ UNCHANGED <<now, usedIds>>

(***************************************************************************)
(* Engine.KickPlayer, Engine.LeaveRoom                                     *)
(***************************************************************************)
\* variant: the vote entry is not deleted
RemovedKeepingVote(server, k) == [server EXCEPT !.Players = MapDelete(@, k)]

\* the room after the player stored under key k is deleted with its vote entry
Removed(server, k) ==
    [server EXCEPT !.Players = MapDelete(@, k),
                   !.CurrentSession.Votes = MapDelete(@, FmtD(server.Players[k].PublicId))]

KickPlayer(id, kickedPublicId) ==
    IF id \notin DOMAIN servers
    THEN Fail(ErrRoomNotFound)
    ELSE LET players == servers[id].Players
             hits == {k \in DOMAIN players : players[k].PublicId = kickedPublicId}
         IN IF hits = {}
            THEN Fail(ErrPlayerNotFound)
            ELSE \E k \in hits :
                    /\ servers' = [servers EXCEPT ![id] = Removed(@, k)]
                    /\ ret' = [err |-> Nil, val |-> k]
                    /\ UNCHANGED <<now, usedIds>>

\* variant: the room is closed when its last player leaves
LeaveRoomClosingEmpty(id, privateId) ==
    IF id \notin DOMAIN servers
    THEN Fail(NotOk)
    ELSE IF privateId \notin DOMAIN servers[id].Players
    THEN Fail(NotOk)
    ELSE LET player == servers[id].Players[privateId]
         IN /\ servers' = IF DOMAIN servers[id].Players = {privateId}
                           THEN MapDelete(servers, id)
                           ELSE [servers EXCEPT ![id] = Removed(@, privateId)]
            /\ ret' = [err |-> Nil, val |-> player.Name]
            /\ UNCHANGED <<now, usedIds>>

LeaveRoom(id, privateId) ==
    IF id \notin DOMAIN servers
    THEN Fail(NotOk)
    ELSE IF privateId \notin DOMAIN servers[id].Players
    THEN Fail(NotOk)
    ELSE LET player == servers[id].Players[privateId]
         IN /\ servers' = [servers EXCEPT ![id] = Removed(@, privateId)]
            /\ ret' = [err |-> Nil, val |-> player.Name]
            /\ UNCHANGED <<now, usedIds>>

(***************************************************************************)
(* Engine.CleanupOldRooms                                                  *)
(***************************************************************************)
\* variant: a room is dropped as soon as its age reaches maxAge
ExpiredAtMaxAge(server, maxAge) == now - server.LastAccess >= maxAge

Expired(server, maxAge) == now - server.LastAccess > maxAge

CleanupOldRooms(maxAge) ==
    /\ servers' = [id \in {r \in DOMAIN servers : ~Expired(servers[r], maxAge)} |-> servers[id]]
    /\ ret' = [err |-> Nil, val |-> NoVal]
    /\ UNCHANGED <<now, usedIds>>

\* time passes: the next time.Now() is d minutes later
Tick(d) ==
    /\ now + d <= MaxNow
    /\ now' = now + d
    /\ UNCHANGED <<servers, usedIds, ret>>

(***************************************************************************)
(* Server.handleAction, case "changeType", for the connection whose        *)
(* PlayerId is privateId and whose RoomId is id: the lookup through        *)
(* GetServer, the write of player.Type and the UnVote that follows a       *)
(* change to Observer are taken as one step; ret keeps what the handler    *)
(* got back from the engine.                                               *)
(***************************************************************************)
ChangeType(id, privateId, pType) ==
    IF id \notin DOMAIN servers
    THEN Fail(NotOk)
    ELSE IF privateId \notin DOMAIN servers[id].Players
    THEN /\ servers' = [servers EXCEPT ![id].LastAccess = now]
         /\ ret' = [err |-> NotOk, val |-> NoVal]
         /\ UNCHANGED <<now, usedIds>>
    ELSE LET typed == [servers EXCEPT ![id].LastAccess = now,
                                      ![id].Players[privateId].Type = pType]
             err == IF pType = Observer THEN UnVoteErr(typed, id, privateId) ELSE Nil
             key == FmtD(typed[id].Players[privateId].PublicId)
         IN IF pType = Observer /\ err = Nil
            THEN /\ servers' = [typed EXCEPT ![id].CurrentSession.Votes = MapDelete(@, key)]
                 /\ ret' = [err |-> Nil, val |-> NoVal]
                 /\ UNCHANGED <<now, usedIds>>
            ELSE /\ servers' = typed
                 /\ ret' = [err |-> err, val |-> NoVal]
                 /\ UNCHANGED <<now, usedIds>>

(***************************************************************************)
(* Calls arrive in any order, with any arguments                           *)
(***************************************************************************)
AnyRoom == RoomIds \cup {UnknownRoom}

Next ==
    \/ \E cs \in CardSetSpecs :
          CreateRoom(cs) /\ UNCHANGED <<hist, touched, request, hub, srv>>
    \/ \E id \in AnyRoom :
          GetServer(id) /\ UNCHANGED <<hist, touched, request, hub, srv>>
    \/ \E id \in AnyRoom, r \in RecoveryIds, n \in Names, k \in PrivateIds, t \in PlayerTypes :
          JoinRoom(id, r, n, k, t) /\ UNCHANGED <<hist, touched, request, hub, srv>>
    \/ \E id \in AnyRoom, k \in PrivateIds, v \in VoteValues :
          Vote(id, k, v) /\ UNCHANGED <<hist, touched, request, hub, srv>>
    \/ \E id \in AnyRoom, k \in PrivateIds :
          UnVote(id, k) /\ UNCHANGED <<hist, touched, request, hub, srv>>
    \/ \E id \in AnyRoom :
          ClearVotes(id) /\ UNCHANGED <<hist, touched, request, hub, srv>>
    \/ \E id \in AnyRoom :
          ShowVotes(id) /\ UNCHANGED <<hist, touched, request, hub, srv>>
    \/ \E id \in AnyRoom, p \in 0..MaxPublicId :
          KickPlayer(id, p) /\ UNCHANGED <<hist, touched, request, hub, srv>>
    \/ \E id \in AnyRoom, k \in PrivateIds :
          LeaveRoom(id, k) /\ UNCHANGED <<hist, touched, request, hub, srv>>
    \/ \E id \in AnyRoom, k \in PrivateIds, t \in PlayerTypes :
          ChangeType(id, k, t) /\ UNCHANGED <<hist, touched, request, hub, srv>>

Spec == Init /\ [][Next]_vars

(***************************************************************************)
(* SpecH: the same steps, with the history of each room recorded           *)
(***************************************************************************)
PlayersOf(S, id) == S[id].Players

VotesOf(S, id) == S[id].CurrentSession.Votes

\* every publicId a room has held so far
Seen ==
    [id \in DOMAIN servers' |->
        (IF id \in DOMAIN assigned THEN assigned[id] ELSE {})
           \cup {PlayersOf(servers', id)[k].PublicId : k \in DOMAIN PlayersOf(servers', id)}]

\* the writers of the vote entries that are still there
Kept ==
    [id \in DOMAIN servers' |->
        [key \in (IF id \in DOMAIN caster THEN DOMAIN caster[id] ELSE {})
                    \cap DOMAIN VotesOf(servers', id) |-> caster[id][key]]]

\* the writers after the player under privateId has cast a vote in room id
KeptWith(id, privateId) ==
    IF VoteErr(servers, id, privateId) = Nil
    THEN [Kept EXCEPT ![id] =
             MapPut(@, VoteKey(PlayersOf(servers, id)[privateId]),
                    PlayersOf(servers, id)[privateId].RecoveryId)]
    ELSE Kept

NextH ==
    \/ \E cs \in CardSetSpecs :
          CreateRoom(cs) /\ assigned' = Seen /\ caster' = Kept /\ UNCHANGED <<touched, request, hub, srv>>
    \/ \E id \in AnyRoom :
          GetServer(id) /\ assigned' = Seen /\ caster' = Kept /\ UNCHANGED <<touched, request, hub, srv>>
    \/ \E id \in AnyRoom, r \in RecoveryIds, n \in Names, k \in PrivateIds, t \in PlayerTypes :
          JoinRoom(id, r, n, k, t) /\ assigned' = Seen /\ caster' = Kept /\ UNCHANGED <<touched, request, hub, srv>>
    \/ \E id \in AnyRoom, k \in PrivateIds, v \in VoteValues :
          Vote(id, k, v) /\ assigned' = Seen /\ caster' = KeptWith(id, k) /\ UNCHANGED <<touched, request, hub, srv>>
    \/ \E id \in AnyRoom, k \in PrivateIds :
          UnVote(id, k) /\ assigned' = Seen /\ caster' = Kept /\ UNCHANGED <<touched, request, hub, srv>>
    \/ \E id \in AnyRoom :
          ClearVotes(id) /\ assigned' = Seen /\ caster' = Kept /\ UNCHANGED <<touched, request, hub, srv>>
    \/ \E id \in AnyRoom :
          ShowVotes(id) /\ assigned' = Seen /\ caster' = Kept /\ UNCHANGED <<touched, request, hub, srv>>
    \/ \E id \in AnyRoom, p \in 0..MaxPublicId :
          KickPlayer(id, p) /\ assigned' = Seen /\ caster' = Kept /\ UNCHANGED <<touched, request, hub, srv>>
    \/ \E id \in AnyRoom, k \in PrivateIds :
          LeaveRoom(id, k) /\ assigned' = Seen /\ caster' = Kept /\ UNCHANGED <<touched, request, hub, srv>>
    \/ \E id \in AnyRoom, k \in PrivateIds, t \in PlayerTypes :
          ChangeType(id, k, t) /\ assigned' = Seen /\ caster' = Kept /\ UNCHANGED <<touched, request, hub, srv>>

SpecH == Init /\ [][NextH]_vars

(***************************************************************************)
(* Views of a room used by the properties                                  *)
(***************************************************************************)
\* the step's call succeeded and returned v
Returned(v) == ret' = [err |-> Nil, val |-> v]

IsNewParticipation(id, recoveryId) ==
    id \in DOMAIN servers /\ Recovering(PlayersOf(servers, id), recoveryId) = {}

IsReconnect(id, recoveryId) ==
    id \in DOMAIN servers /\ Recovering(PlayersOf(servers, id), recoveryId) # {}

\* the last call was a JoinRoom that took the reconnect path in room id:
\* it returned the record under key k, whose publicId is not the room's largest
ReconnectedAt(id, k) ==
    /\ id \in DOMAIN servers
    /\ ret = [err |-> Nil, val |-> k]
    /\ k \in DOMAIN PlayersOf(servers, id)
    /\ \E o \in DOMAIN PlayersOf(servers, id) :
          PlayersOf(servers, id)[o].PublicId > PlayersOf(servers, id)[k].PublicId

(***************************************************************************)
(* C1: the publicId given to a new participation (a JoinRoom whose         *)
(* recoveryId matches no player in the room) is strictly greater than      *)
(* every publicId assigned before in that room.                            *)
(***************************************************************************)
C1_PublicIdNeverReused ==
    [][\A id \in RoomIds, k \in PrivateIds, r \in RecoveryIds, n \in Names, t \in PlayerTypes :
          (Returned(k) /\ IsNewParticipation(id, r) /\ JoinRoom(id, r, n, k, t))
             => \A q \in assigned[id] : PlayersOf(servers', id)[k].PublicId > q]_vars

(***************************************************************************)
(* C2: a vote stored under the publicId of a player in the room was        *)
(* written by a Vote call of that same participation (same recoveryId).    *)
(***************************************************************************)
C2_VoteNotMisattributed ==
    \A id \in DOMAIN servers : \A k \in DOMAIN PlayersOf(servers, id) :
        LET p == PlayersOf(servers, id)[k]
        IN FmtD(p.PublicId) \in DOMAIN VotesOf(servers, id)
              => caster[id][FmtD(p.PublicId)] = p.RecoveryId

(***************************************************************************)
(* C3 as stated: a JoinRoom with the recoveryId of a player in the room    *)
(* leaves the number of players, that player's publicId and recoveryId and *)
(* the votes map unchanged, the old key maps to no player any more, and    *)
(* the record is under the new privateId with the supplied name and type   *)
(* and mode Awake.                                                         *)
(***************************************************************************)
C3_ReconnectAsStated ==
    [][\A id \in RoomIds, k \in PrivateIds, r \in RecoveryIds, n \in Names, t \in PlayerTypes :
          (Returned(k) /\ IsReconnect(id, r) /\ JoinRoom(id, r, n, k, t))
             => \A old \in Recovering(PlayersOf(servers, id), r) :
                   LET P == PlayersOf(servers, id)
                       Q == PlayersOf(servers', id)
                   IN /\ Cardinality(DOMAIN Q) = Cardinality(DOMAIN P)
                      /\ VotesOf(servers', id) = VotesOf(servers, id)
                      /\ old \notin DOMAIN Q
                      /\ k \in DOMAIN Q
                      /\ Q[k].PublicId = P[old].PublicId
                      /\ Q[k].RecoveryId = P[old].RecoveryId
                      /\ Q[k].Id = k /\ Q[k].Name = n /\ Q[k].Type = t /\ Q[k].Mode = Awake]_vars

(***************************************************************************)
(* C3 amended: the record moves to the new privateId with the supplied     *)
(* name and type, mode Awake and its publicId and recoveryId; the session  *)
(* (votes included) is unchanged; the old key maps to no player unless it  *)
(* is the new key; a different player stored under the new key is dropped  *)
(* and every other player is unchanged, so the number of players is        *)
(* unchanged exactly when the new key was free or was the old key.         *)
(***************************************************************************)
C3_Reconnect ==
    [][\A id \in RoomIds, k \in PrivateIds, r \in RecoveryIds, n \in Names, t \in PlayerTypes :
          (Returned(k) /\ IsReconnect(id, r) /\ JoinRoom(id, r, n, k, t))
             => \A old \in Recovering(PlayersOf(servers, id), r) :
                   LET P == PlayersOf(servers, id)
                       Q == PlayersOf(servers', id)
                       replaced == (DOMAIN P) \cap ({k} \ {old})
                   IN /\ DOMAIN Q = ((DOMAIN P) \ {old}) \cup {k}
                      /\ Cardinality(DOMAIN Q) = Cardinality(DOMAIN P) - Cardinality(replaced)
                      /\ servers'[id].CurrentSession = servers[id].CurrentSession
                      /\ (old # k => old \notin DOMAIN Q)
                      /\ Q[k] = [ Id |-> k, PublicId |-> P[old].PublicId,
                                  RecoveryId |-> P[old].RecoveryId,
                                  Name |-> n, Type |-> t, Mode |-> Awake ]
                      /\ \A x \in (DOMAIN P) \ {old, k} : Q[x] = P[x]]_vars

\* a reconnect has just moved a player that has a cast vote
C3_Witness ==
    \E id \in RoomIds, k \in PrivateIds :
        /\ ReconnectedAt(id, k)
        /\ FmtD(PlayersOf(servers, id)[k].PublicId) \in DOMAIN VotesOf(servers, id)

(***************************************************************************)
(* C4: no two players of a room have the same recoveryId.                  *)
(***************************************************************************)
C4_UniqueRecoveryId ==
    \A id \in DOMAIN servers : \A k1, k2 \in DOMAIN PlayersOf(servers, id) :
        k1 # k2 => PlayersOf(servers, id)[k1].RecoveryId # PlayersOf(servers, id)[k2].RecoveryId

\* two players are in the room and the last call was a reconnect
C4_Witness ==
    \E id \in RoomIds, k \in PrivateIds :
        /\ ReconnectedAt(id, k)
        /\ Cardinality(DOMAIN PlayersOf(servers, id)) = 2
        /\ PlayersOf(servers, id)[k].Type = Observer

(***************************************************************************)
(* C5: no two players of a room have the same publicId.                    *)
(***************************************************************************)
C5_UniquePublicId ==
    \A id \in DOMAIN servers : \A k1, k2 \in DOMAIN PlayersOf(servers, id) :
        k1 # k2 => PlayersOf(servers, id)[k1].PublicId # PlayersOf(servers, id)[k2].PublicId

\* the room holds a player under every privateId and the last call was a
\* JoinRoom that returned the player with the largest publicId
C5_Witness ==
    \E id \in RoomIds :
        /\ id \in DOMAIN servers
        /\ DOMAIN PlayersOf(servers, id) = PrivateIds
        /\ ret.err = Nil /\ ret.val \in PrivateIds
        /\ PlayersOf(servers, id)[ret.val].PublicId = MaxPublicId

(***************************************************************************)
(* Error kinds of the engine's error messages                              *)
(***************************************************************************)
Kind(err) ==
    CASE err \in {ErrRoomNotFound, ErrPlayerNotFound} -> "NotFound"
      [] err = ErrObserver -> "Forbidden"
      [] err \in {ErrVoteShown, ErrUnVoteShown} -> "Locked"
      [] err = ErrEmptyCardSet -> "InvalidInput"
      [] OTHER -> "none"

IsShownIn(S, id) == S[id].CurrentSession.IsShown

HasVote(S, id, k) == FmtD(PlayersOf(S, id)[k].PublicId) \in DOMAIN VotesOf(S, id)

(***************************************************************************)
(* C6: while a room is revealed, every Vote and UnVote call on it (the     *)
(* UnVote made by changeType included) returns an error and leaves votes   *)
(* unchanged, and the room stops being revealed only by ClearVotes.        *)
(***************************************************************************)
C6_LockedWhileShown ==
    [][\A id \in RoomIds :
          (id \in DOMAIN servers /\ IsShownIn(servers, id)) =>
             /\ \A k \in PrivateIds, v \in VoteValues :
                   Vote(id, k, v) => /\ ret'.err # Nil
                                     /\ VotesOf(servers', id) = VotesOf(servers, id)
             /\ \A k \in PrivateIds :
                   UnVote(id, k) => /\ ret'.err # Nil
                                    /\ VotesOf(servers', id) = VotesOf(servers, id)
             /\ \A k \in PrivateIds, t \in PlayerTypes :
                   ChangeType(id, k, t) => VotesOf(servers', id) = VotesOf(servers, id)
             /\ (~IsShownIn(servers', id) => ClearVotes(id))]_vars

\* an UnVote has just been refused in a revealed room that holds votes
C6_Witness ==
    \E id \in RoomIds :
        /\ id \in DOMAIN servers
        /\ IsShownIn(servers, id)
        /\ VotesOf(servers, id) # EmptyMap
        /\ ret.err = ErrUnVoteShown

(***************************************************************************)
(* C7: ClearVotes on an existing room ends with votes empty and the room   *)
(* not revealed, leaves players and cardSet unchanged, and a second        *)
(* ClearVotes changes nothing more.                                        *)
(***************************************************************************)
C7_ClearVotes ==
    [][\A id \in RoomIds :
          (Returned(NoVal) /\ id \in DOMAIN servers /\ ClearVotes(id)) =>
             /\ VotesOf(servers', id) = EmptyMap
             /\ ~IsShownIn(servers', id)
             /\ PlayersOf(servers', id) = PlayersOf(servers, id)
             /\ servers'[id].CurrentSession.CardSet = servers[id].CurrentSession.CardSet
             /\ [servers' EXCEPT ![id].CurrentSession = Cleared(@)] = servers']_vars

\* a room with players stands cleared after a call that succeeded
C7_Witness ==
    \E id \in RoomIds :
        /\ id \in DOMAIN servers
        /\ PlayersOf(servers, id) # EmptyMap
        /\ VotesOf(servers, id) = EmptyMap
        /\ ~IsShownIn(servers, id)
        /\ \E k \in DOMAIN PlayersOf(servers, id) :
              PlayersOf(servers, id)[k].PublicId = MaxPublicId
        /\ ret = [err |-> Nil, val |-> NoVal]

(***************************************************************************)
(* C8: no player whose type is Observer has an entry in votes under their  *)
(* publicId.                                                               *)
(***************************************************************************)
C8_NoObserverVote ==
    \A id \in DOMAIN servers : \A k \in DOMAIN PlayersOf(servers, id) :
        PlayersOf(servers, id)[k].Type = Observer => ~HasVote(servers, id, k)

(***************************************************************************)
(* C9: Vote fails with NotFound when the room or player is unknown, else   *)
(* with Forbidden when the player is an Observer, else with Locked when    *)
(* the room is revealed, changing nothing; otherwise it sets               *)
(* votes[publicId] to the value and changes no other vote, no player and   *)
(* not isShown.                                                            *)
(***************************************************************************)
C9_Vote ==
    [][\A id \in AnyRoom, k \in PrivateIds, v \in VoteValues :
          (ret'.val = NoVal /\ Vote(id, k, v)) =>
             IF id \notin DOMAIN servers \/ k \notin DOMAIN PlayersOf(servers, id)
             THEN Kind(ret'.err) = "NotFound" /\ servers' = servers
             ELSE IF PlayersOf(servers, id)[k].Type = Observer
             THEN Kind(ret'.err) = "Forbidden" /\ servers' = servers
             ELSE IF IsShownIn(servers, id)
             THEN Kind(ret'.err) = "Locked" /\ servers' = servers
             ELSE LET key == FmtD(PlayersOf(servers, id)[k].PublicId)
                      V == VotesOf(servers, id)
                      W == VotesOf(servers', id)
                  IN /\ ret'.err = Nil
                     /\ DOMAIN W = (DOMAIN V) \cup {key}
                     /\ W[key] = v
                     /\ \A o \in (DOMAIN V) \ {key} : W[o] = V[o]
                     /\ PlayersOf(servers', id) = PlayersOf(servers, id)
                     /\ IsShownIn(servers', id) = IsShownIn(servers, id)]_vars

\* two participants hold different votes in a room that is not revealed,
\* right after a call that succeeded
C9_Witness ==
    \E id \in RoomIds :
        /\ id \in DOMAIN servers
        /\ ~IsShownIn(servers, id)
        /\ ret = [err |-> Nil, val |-> NoVal]
        /\ \E k1, k2 \in DOMAIN PlayersOf(servers, id) :
              /\ HasVote(servers, id, k1) /\ HasVote(servers, id, k2)
              /\ VotesOf(servers, id)[FmtD(PlayersOf(servers, id)[k1].PublicId)]
                    # VotesOf(servers, id)[FmtD(PlayersOf(servers, id)[k2].PublicId)]

(***************************************************************************)
(* C10: a successful KickPlayer or LeaveRoom removes exactly that player   *)
(* and the votes entry under that player's publicId, revealed or not, and  *)
(* leaves every other player, every other vote and isShown unchanged;      *)
(* KickPlayer returns the key the removed player was stored under and      *)
(* fails with NotFound when no player has the publicId.                    *)
(***************************************************************************)
RemovedExactly(id, k) ==
    LET P == PlayersOf(servers, id)
        Q == PlayersOf(servers', id)
        V == VotesOf(servers, id)
        W == VotesOf(servers', id)
        key == FmtD(P[k].PublicId)
    IN /\ DOMAIN Q = (DOMAIN P) \ {k}
       /\ \A x \in DOMAIN Q : Q[x] = P[x]
       /\ DOMAIN W = (DOMAIN V) \ {key}
       /\ \A o \in DOMAIN W : W[o] = V[o]
       /\ IsShownIn(servers', id) = IsShownIn(servers, id)

C10_KickAndLeave ==
    [][\A id \in RoomIds :
          id \in DOMAIN servers =>
             /\ \A p \in 0..MaxPublicId :
                   KickPlayer(id, p) =>
                      IF \A k \in DOMAIN PlayersOf(servers, id) :
                            PlayersOf(servers, id)[k].PublicId # p
                      THEN Kind(ret'.err) = "NotFound" /\ servers' = servers
                      ELSE /\ ret'.err = Nil
                           /\ ret'.val \in DOMAIN PlayersOf(servers, id)
                           /\ PlayersOf(servers, id)[ret'.val].PublicId = p
                           /\ RemovedExactly(id, ret'.val)
             /\ \A k \in DOMAIN PlayersOf(servers, id) :
                   LeaveRoom(id, k) =>
                      /\ ret' = [err |-> Nil, val |-> PlayersOf(servers, id)[k].Name]
                      /\ RemovedExactly(id, k)]_vars

\* a player has just been kicked from a revealed room; the other player and
\* that player's vote are still there
C10_Witness ==
    \E id \in RoomIds, k \in PrivateIds :
        /\ id \in DOMAIN servers
        /\ IsShownIn(servers, id)
        /\ ret = [err |-> Nil, val |-> k]
        /\ k \notin DOMAIN PlayersOf(servers, id)
        /\ \E o \in DOMAIN PlayersOf(servers, id) : HasVote(servers, id, o)

(***************************************************************************)
(* What an UnVote step that gets past its checks leaves behind: the votes  *)
(* entry under the player's publicId is gone and nothing else has changed. *)
(***************************************************************************)
UnVotedExactly(id, k) ==
    LET V == VotesOf(servers, id)
        W == VotesOf(servers', id)
        key == FmtD(PlayersOf(servers, id)[k].PublicId)
    IN /\ ret'.err = Nil
       /\ DOMAIN W = (DOMAIN V) \ {key}
       /\ \A o \in DOMAIN W : W[o] = V[o]
       /\ [servers' EXCEPT ![id].CurrentSession.Votes = V] = servers

(***************************************************************************)
(* C11 as stated: UnVote fails with NotFound for an unknown room and with  *)
(* Locked for a revealed room; for a privateId that matches no player it   *)
(* reports no error and changes nothing; otherwise it removes the votes    *)
(* entry under the player's publicId, if any, and changes nothing else.    *)
(***************************************************************************)
C11_UnVoteAsStated ==
    [][\A id \in AnyRoom, k \in PrivateIds :
          (ret'.val = NoVal /\ UnVote(id, k)) =>
             IF id \notin DOMAIN servers
             THEN Kind(ret'.err) = "NotFound" /\ servers' = servers
             ELSE IF IsShownIn(servers, id)
             THEN Kind(ret'.err) = "Locked" /\ servers' = servers
             ELSE IF k \notin DOMAIN PlayersOf(servers, id)
             THEN ret'.err = Nil /\ servers' = servers
             ELSE UnVotedExactly(id, k)]_vars

(***************************************************************************)
(* C11 amended: as above, except that for a privateId that matches no      *)
(* player of a room that is not revealed UnVote returns the NotFound error *)
(* "player not found"; the state is unchanged.                             *)
(***************************************************************************)
C11_UnVote ==
    [][\A id \in AnyRoom, k \in PrivateIds :
          (ret'.val = NoVal /\ UnVote(id, k)) =>
             IF id \notin DOMAIN servers
             THEN Kind(ret'.err) = "NotFound" /\ servers' = servers
             ELSE IF IsShownIn(servers, id)
             THEN Kind(ret'.err) = "Locked" /\ servers' = servers
             ELSE IF k \notin DOMAIN PlayersOf(servers, id)
             THEN ret'.err = ErrPlayerNotFound /\ servers' = servers
             ELSE UnVotedExactly(id, k)]_vars

\* a call for a privateId that is not in the room has just been refused
\* with "player not found"; the room is not revealed and holds another
\* player's vote
C11_Witness ==
    \E id \in RoomIds :
        /\ id \in DOMAIN servers
        /\ ~IsShownIn(servers, id)
        /\ ret.err = ErrPlayerNotFound
        /\ DOMAIN PlayersOf(servers, id) # PrivateIds
        /\ \E o \in DOMAIN PlayersOf(servers, id) : HasVote(servers, id, o)

(***************************************************************************)
(* SpecCreate: room creation over every cardSet string of at most MaxLen   *)
(* characters.  A run serves one request string, any number of times;      *)
(* JoinRoom puts a player into the rooms that exist.                       *)
(***************************************************************************)
Chars == {"5", "8", ",", " "}

Requests == UNION {[1..n -> Chars] : n \in 0..MaxLen}

InitCreate ==
    /\ EngineInit
    /\ HubInit
    /\ ServerInit
    /\ request \in Requests

\* Server.HandleCreateRoom: the decoded body's cardSet goes to CreateRoom
HandleCreateRoom == CreateRoomFrom(TwoRooms, request)

NextCreate ==
    \/ HandleCreateRoom /\ UNCHANGED <<hist, touched, request, hub, srv>>
    \/ \E id \in TwoRooms :
          JoinRoom(id, "r1", "Ann", "a", Participant) /\ UNCHANGED <<hist, touched, request, hub, srv>>

SpecCreate == InitCreate /\ [][NextCreate]_vars

(***************************************************************************)
(* The cards a cardSet string stands for, read off the string's positions: *)
(* a token lies between two neighbouring commas (or string ends), its card *)
(* runs from its first to its last character that is not a space.          *)
(***************************************************************************)
Min(S) == CHOOSE m \in S : \A x \in S : m <= x

TokenStarts(s) == {0} \cup {i \in 1..Len(s) : s[i] = ","}

TokenEnd(s, a) == Min({j \in TokenStarts(s) \cup {Len(s) + 1} : j > a})

CardAt(s, a) ==
    LET inked == {i \in (a + 1)..(TokenEnd(s, a) - 1) : s[i] # " "}
    IN IF inked = {} THEN <<>> ELSE SubSeq(s, Min(inked), Max(inked))

CardsOf(s) ==
    LET kept == {a \in TokenStarts(s) : CardAt(s, a) # <<>>}
        nth(j) == CHOOSE a \in kept : Cardinality({b \in kept : b < a}) = j - 1
    IN [j \in 1..Cardinality(kept) |-> Str(CardAt(s, nth(j)))]

(***************************************************************************)
(* C12: CreateRoom fails with InvalidInput and adds no room exactly when   *)
(* the string has no comma-separated token that is non-empty after         *)
(* trimming; otherwise it adds one room under a fresh id whose cardSet is  *)
(* the trimmed non-empty tokens in their order, with no player, no vote    *)
(* and isShown false, and leaves every existing room unchanged.            *)
(***************************************************************************)
C12_CreateRoom ==
    [][HandleCreateRoom =>
          IF CardsOf(request) = <<>>
          THEN Kind(ret'.err) = "InvalidInput" /\ servers' = servers
          ELSE /\ ret'.err = Nil
               /\ ret'.val \notin DOMAIN servers
               /\ ret'.val \notin usedIds
               /\ DOMAIN servers' = (DOMAIN servers) \cup {ret'.val}
               /\ servers'[ret'.val].CurrentSession =
                     [CardSet |-> CardsOf(request), Votes |-> EmptyMap, IsShown |-> FALSE]
               /\ PlayersOf(servers', ret'.val) = EmptyMap
               /\ \A id \in DOMAIN servers : servers'[id] = servers[id]]_vars

\* a second room has just been created from a string with a space in it,
\* beside a room that holds a player
C12_Witness ==
    /\ ret.err = Nil
    /\ ret.val \in DOMAIN servers
    /\ PlayersOf(servers, ret.val) = EmptyMap
    /\ \E i \in 1..Len(request) : request[i] = " "
    /\ \E id \in DOMAIN servers : id # ret.val /\ PlayersOf(servers, id) # EmptyMap

(***************************************************************************)
(* The step is a call of one of the engine's operations that can fail      *)
(***************************************************************************)
EngineCall ==
    \/ \E cs \in CardSetSpecs : CreateRoom(cs)
    \/ \E id \in AnyRoom, r \in RecoveryIds, n \in Names, k \in PrivateIds, t \in PlayerTypes :
          JoinRoom(id, r, n, k, t)
    \/ \E id \in AnyRoom, k \in PrivateIds, v \in VoteValues : Vote(id, k, v)
    \/ \E id \in AnyRoom, k \in PrivateIds : UnVote(id, k)
    \/ \E id \in AnyRoom : ShowVotes(id)
    \/ \E id \in AnyRoom : ClearVotes(id)
    \/ \E id \in AnyRoom, p \in 0..MaxPublicId : KickPlayer(id, p)
    \/ \E id \in AnyRoom, k \in PrivateIds : LeaveRoom(id, k)

(***************************************************************************)
(* C13: a call of CreateRoom, JoinRoom, Vote, UnVote, ShowVotes,           *)
(* ClearVotes, KickPlayer or LeaveRoom that returns an error (or ok =      *)
(* false) leaves the room table and every room in it as they were: a step  *)
(* that returns a failure and changes the table is none of these calls.    *)
(***************************************************************************)
C13_FailureChangesNothing ==
    [][(ret'.err # Nil /\ servers' # servers) => ~EngineCall]_vars

\* a Vote has just been refused in a revealed room that holds two players
\* and a vote
C13_Witness ==
    \E id \in RoomIds :
        /\ id \in DOMAIN servers
        /\ ret.err = ErrVoteShown
        /\ IsShownIn(servers, id)
        /\ DOMAIN PlayersOf(servers, id) = PrivateIds
        /\ VotesOf(servers, id) # EmptyMap

(***************************************************************************)
(* SpecTime: two rooms, one player, the clock and the periodic sweep.      *)
(* Time is counted in minutes; touched records, for each room, when a call *)
(* last succeeded on it.                                                   *)
(***************************************************************************)
TickSteps == {30, 31}

MaxAges == {SweepMaxAge}

\* touched after a call on room id
Recorded(id) ==
    [r \in DOMAIN servers' |-> IF r = id /\ ret'.err = Nil THEN now ELSE touched[r]]

\* touched after a step that is no call on a room
Unrecorded == [r \in DOMAIN servers' |-> touched[r]]

NextTime ==
    \/ \E cs \in CardSetSpecs :
          CreateRoomFrom(TwoRooms, cs)
             /\ touched' = Recorded(ret'.val) /\ UNCHANGED <<hist, request, hub, srv>>
    \/ \E id \in TwoRooms :
          GetServer(id) /\ touched' = Recorded(id) /\ UNCHANGED <<hist, request, hub, srv>>
    \/ \E id \in TwoRooms :
          JoinRoom(id, "r1", "Ann", "a", Participant)
             /\ touched' = Recorded(id) /\ UNCHANGED <<hist, request, hub, srv>>
    \/ \E id \in TwoRooms :
          Vote(id, "a", "5") /\ touched' = Recorded(id) /\ UNCHANGED <<hist, request, hub, srv>>
    \/ \E id \in TwoRooms :
          UnVote(id, "a") /\ touched' = Recorded(id) /\ UNCHANGED <<hist, request, hub, srv>>
    \/ \E id \in TwoRooms :
          ClearVotes(id) /\ touched' = Recorded(id) /\ UNCHANGED <<hist, request, hub, srv>>
    \/ \E id \in TwoRooms :
          ShowVotes(id) /\ touched' = Recorded(id) /\ UNCHANGED <<hist, request, hub, srv>>
    \/ \E id \in TwoRooms :
          KickPlayer(id, 1) /\ touched' = Recorded(id) /\ UNCHANGED <<hist, request, hub, srv>>
    \/ \E id \in TwoRooms :
          LeaveRoom(id, "a") /\ touched' = Recorded(id) /\ UNCHANGED <<hist, request, hub, srv>>
    \/ \E age \in MaxAges :
          CleanupOldRooms(age) /\ touched' = Unrecorded /\ UNCHANGED <<hist, request, hub, srv>>
    \/ \E d \in TickSteps :
          Tick(d) /\ touched' = Unrecorded /\ UNCHANGED <<hist, request, hub, srv>>

SpecTime == Init /\ [][NextTime]_vars

\* the step is a call, with the arguments SpecTime uses, of an operation
\* that reads or writes room id
RoomCall(id) ==
    \/ GetServer(id)
    \/ JoinRoom(id, "r1", "Ann", "a", Participant)
    \/ Vote(id, "a", "5")
    \/ UnVote(id, "a")
    \/ ShowVotes(id)
    \/ ClearVotes(id)
    \/ KickPlayer(id, 1)
    \/ LeaveRoom(id, "a")

(***************************************************************************)
(* C14: every successful GetServer, JoinRoom, Vote, UnVote, ShowVotes,     *)
(* ClearVotes, KickPlayer or LeaveRoom on an existing room sets the room's *)
(* LastAccess to the time of the call, and CleanupOldRooms(maxAge) never   *)
(* removes a room on which such a call succeeded less than maxAge ago.     *)
(***************************************************************************)
C14_TouchedByEveryCall ==
    [][\A id \in TwoRooms :
          id \in DOMAIN servers =>
             /\ (ret'.err = Nil /\ RoomCall(id)) => servers'[id].LastAccess = now
             /\ \A age \in MaxAges :
                   (CleanupOldRooms(age) /\ now - touched[id] < age)
                      => id \in DOMAIN servers']_vars

(***************************************************************************)
(* C15: CleanupOldRooms(maxAge) removes exactly the rooms whose LastAccess *)
(* is older than now - maxAge and leaves every other room as it was (with  *)
(* maxAge = 60 minutes: touched 61 minutes ago is removed, 30 minutes ago  *)
(* is kept).                                                               *)
(***************************************************************************)
C15_Sweep ==
    [][\A age \in MaxAges :
          CleanupOldRooms(age) =>
             /\ DOMAIN servers' =
                   {id \in DOMAIN servers : ~(servers[id].LastAccess < now - age)}
             /\ \A id \in DOMAIN servers' : servers'[id] = servers[id]]_vars

\* at minute 61 the room last touched at minute 0 has been swept and the
\* room last touched 30 minutes ago, at minute 31, is still there with its
\* player
C15_Witness ==
    /\ now = 61
    /\ "room1" \in usedIds /\ "room1" \notin DOMAIN servers
    /\ "room2" \in DOMAIN servers
    /\ servers["room2"].LastAccess = 31
    /\ PlayersOf(servers, "room2") # EmptyMap
    /\ ret = [err |-> Nil, val |-> NoVal]

(***************************************************************************)
(* Hub.Run.  A message is [room, seq]: the room of the broadcast event and *)
(* its number in the order the Hub accepted the events.  Closing a channel *)
(* that is already closed panics, and so does a send on a closed channel;  *)
(* the panic ends the process: no action of the server is enabled once a   *)
(* channel has been closed twice or sent to after its close.               *)
(***************************************************************************)
engine == <<servers, now, usedIds, ret>>

Running ==
    /\ \A c \in Clients : closes[c] <= 1
    /\ sentClosed = {}

\* the handlers inside kickClient's loop: each holds h.Mu.RLock()
Readers == {c \in Clients : pc[c].todo # <<>> /\ Head(pc[c].todo) = "kickSend"}

\* variant: the client is put into the set of every room
RegisteredEverywhere(R, c) ==
    [r \in (DOMAIN R) \cup {RoomIdOf(c)} |-> (IF r \in DOMAIN R THEN R[r] ELSE {}) \cup {c}]

\* h.Rooms after h.Rooms[client.RoomId][client] = true
Registered(R, c) ==
    MapPut(R, RoomIdOf(c),
           (IF RoomIdOf(c) \in DOMAIN R THEN R[RoomIdOf(c)] ELSE {}) \cup {c})

\* case client := <-h.Register
Register(c) ==
    /\ Running
    /\ Readers = {}
    /\ conn[c] = "none"
    /\ conn' = [conn EXCEPT ![c] = "open"]
    /\ Rooms' = Registered(Rooms, c)
    /\ UNCHANGED <<Send, closes, seq>>

\* case client := <-h.Unregister; readPump sends it once, when it returns
Unregister(c) ==
    /\ Running
    /\ Readers = {}
    /\ conn[c] = "open"
    /\ conn' = [conn EXCEPT ![c] = "gone"]
    /\ IF RoomIdOf(c) \in DOMAIN Rooms
       THEN LET left == Rooms[RoomIdOf(c)] \ {c}
            IN /\ closes' = [closes EXCEPT ![c] = @ + 1]
               /\ Rooms' = IF left = {} /\ closes[c] = 0
                           THEN MapDelete(Rooms, RoomIdOf(c))
                           ELSE [Rooms EXCEPT ![RoomIdOf(c)] = left]
       ELSE UNCHANGED <<Rooms, closes>>
    /\ UNCHANGED <<Send, seq>>

\* variant: a client is taken for full one message early
FullEarly(c) == Len(Send[c]) >= SendCap - 1

\* the select's send case cannot proceed: the buffer is at capacity
Full(c) == Len(Send[c]) >= SendCap

\* variant: the message is put at the front of the buffer
SentAtFront(q, msg) == <<msg>> \o q

\* client.Send <- msg
Sent(q, msg) == Append(q, msg)

\* the loop of case event := <-h.Broadcast over h.Rooms[event.RoomId]
Fanout(r, msg) ==
    LET targets == IF r \in DOMAIN Rooms THEN Rooms[r] ELSE {}
        evicted == {c \in targets : Full(c)}
    IN /\ Send' = [c \in Clients |->
                     IF c \in targets \ evicted THEN Sent(Send[c], msg) ELSE Send[c]]
       /\ closes' = [c \in Clients |-> IF c \in evicted THEN closes[c] + 1 ELSE closes[c]]
       /\ Rooms' = IF r \in DOMAIN Rooms THEN [Rooms EXCEPT ![r] = @ \ evicted] ELSE Rooms

\* case event := <-h.Broadcast, for an event of room r
Broadcast(r) ==
    /\ Running
    /\ seq < MaxSeq
    /\ seq' = seq + 1
    /\ Fanout(r, [room |-> r, seq |-> seq + 1])
    /\ UNCHANGED conn

\* Client.writePump receives the next message from c.Send
Drain(c) ==
    /\ Running
    /\ conn[c] # "none"
    /\ Send[c] # <<>>
    /\ Send' = [Send EXCEPT ![c] = Tail(@)]
    /\ UNCHANGED <<Rooms, closes, conn, seq>>

NextHub ==
    \/ \E c \in Clients :
          Register(c) /\ UNCHANGED <<engine, hist, touched, request, srv>>
    \/ \E c \in Clients :
          Unregister(c) /\ UNCHANGED <<engine, hist, touched, request, srv>>
    \/ \E r \in TwoRooms :
          Broadcast(r) /\ UNCHANGED <<engine, hist, touched, request, srv>>
    \/ \E c \in Clients :
          Drain(c) /\ UNCHANGED <<engine, hist, touched, request, srv>>

SpecHub == Init /\ [][NextHub]_vars

(***************************************************************************)
(* SpecLife: the life of one room: the engine's calls for one player, the  *)
(* clock and the sweep, beside the Hub events of one connection to it.     *)
(***************************************************************************)
NextLife ==
    \/ \E cs \in CardSetSpecs :
          CreateRoom(cs) /\ UNCHANGED <<hist, touched, request, hub, srv>>
    \/ \E id \in RoomIds :
          GetServer(id) /\ UNCHANGED <<hist, touched, request, hub, srv>>
    \/ \E id \in RoomIds :
          JoinRoom(id, "r1", "Ann", "a", Participant)
             /\ UNCHANGED <<hist, touched, request, hub, srv>>
    \/ \E id \in RoomIds :
          Vote(id, "a", "5") /\ UNCHANGED <<hist, touched, request, hub, srv>>
    \/ \E id \in RoomIds :
          UnVote(id, "a") /\ UNCHANGED <<hist, touched, request, hub, srv>>
    \/ \E id \in RoomIds :
          ClearVotes(id) /\ UNCHANGED <<hist, touched, request, hub, srv>>
    \/ \E id \in RoomIds :
          ShowVotes(id) /\ UNCHANGED <<hist, touched, request, hub, srv>>
    \/ \E id \in RoomIds :
          KickPlayer(id, 1) /\ UNCHANGED <<hist, touched, request, hub, srv>>
    \/ \E id \in RoomIds :
          LeaveRoom(id, "a") /\ UNCHANGED <<hist, touched, request, hub, srv>>
    \/ \E age \in MaxAges :
          CleanupOldRooms(age) /\ UNCHANGED <<hist, touched, request, hub, srv>>
    \/ \E d \in TickSteps :
          Tick(d) /\ UNCHANGED <<hist, touched, request, hub, srv>>
    \/ Register("c1") /\ UNCHANGED <<engine, hist, touched, request, srv>>
    \/ Unregister("c1") /\ UNCHANGED <<engine, hist, touched, request, srv>>
    \/ Broadcast(RoomIdOf("c1")) /\ UNCHANGED <<engine, hist, touched, request, srv>>
    \/ Drain("c1") /\ UNCHANGED <<engine, hist, touched, request, srv>>

SpecLife == Init /\ [][NextLife]_vars

(***************************************************************************)
(* C16: a room leaves the engine's table only in a CleanupOldRooms step:   *)
(* no JoinRoom, Vote, UnVote, ShowVotes, ClearVotes, KickPlayer or         *)
(* LeaveRoom and no Hub register, unregister or eviction removes it, also  *)
(* when its players or its Hub connection set become empty.                *)
(***************************************************************************)
C16_RemovedOnlyBySweep ==
    [][\A id \in DOMAIN servers :
          id \notin DOMAIN servers' => \E age \in MaxAges : CleanupOldRooms(age)]_vars

\* the room's only player has left and its only connection has been
\* unregistered, which removed the Hub's entry; the room is still there
C16_Witness ==
    \E id \in RoomIds :
        /\ id \in DOMAIN servers
        /\ PlayersOf(servers, id) = EmptyMap
        /\ ret = [err |-> Nil, val |-> "Ann"]
        /\ conn["c1"] = "gone"
        /\ id = RoomIdOf("c1") /\ id \notin DOMAIN Rooms

(***************************************************************************)
(* C17: a client's channel holds the broadcasts in the order the Hub       *)
(* accepted them, whatever happens in between: every step leaves the       *)
(* channel alone, takes its first message (the writer's receive), or puts  *)
(* the broadcast accepted in this step behind all the others.              *)
(***************************************************************************)
InAcceptedOrder(q) == \A i, j \in 1..Len(q) : i < j => q[i].seq < q[j].seq

C17_BroadcastOrder ==
    [][\A c \in Clients :
          /\ InAcceptedOrder(Send'[c])
          /\ \/ Send'[c] = Send[c]
             \/ Send[c] # <<>> /\ Send'[c] = Tail(Send[c])
             \/ /\ seq' = seq + 1
                /\ Len(Send'[c]) = Len(Send[c]) + 1
                /\ SubSeq(Send'[c], 1, Len(Send[c])) = Send[c]
                /\ Send'[c][Len(Send'[c])].seq = seq'
                /\ \A i \in 1..Len(Send[c]) : Send[c][i].seq <= seq]_vars

\* a client holds two broadcasts of its room, and a broadcast of the other
\* room was accepted between them and delivered there
C17_Witness ==
    \E c, d \in Clients :
        /\ RoomIdOf(c) # RoomIdOf(d)
        /\ Len(Send[c]) = 2
        /\ \E k \in 1..Len(Send[d]) :
              Send[c][1].seq < Send[d][k].seq /\ Send[d][k].seq < Send[c][2].seq

(***************************************************************************)
(* C18: in a broadcast step every client of the room whose buffer is full  *)
(* is removed from the room's set and has its channel closed, and every    *)
(* other client of the room receives the event and stays registered.       *)
(***************************************************************************)
C18_FullBufferEviction ==
    [][\A r \in DOMAIN Rooms :
          (seq' = seq + 1 /\ Broadcast(r)) =>
             \A c \in Rooms[r] :
                IF Len(Send[c]) = SendCap
                THEN /\ c \notin Rooms'[r]
                     /\ closes'[c] = closes[c] + 1
                     /\ Send'[c] = Send[c]
                ELSE /\ Len(Send[c]) < SendCap
                     /\ Send'[c] = Append(Send[c], [room |-> r, seq |-> seq'])
                     /\ c \in Rooms'[r]
                     /\ closes'[c] = closes[c]]_vars

\* the last broadcast evicted one client of a room, whose buffer was full,
\* and reached another client of the same room
C18_Witness ==
    \E c, d \in Clients :
        /\ c # d /\ RoomIdOf(c) = RoomIdOf(d)
        /\ RoomIdOf(c) \in DOMAIN Rooms
        /\ conn[c] = "open" /\ closes[c] = 1 /\ c \notin Rooms[RoomIdOf(c)]
        /\ Len(Send[c]) = SendCap
        /\ d \in Rooms[RoomIdOf(d)]
        /\ Send[d] # <<>> /\ Send[d][Len(Send[d])].seq = seq

(***************************************************************************)
(* C19: a client's channel is closed at most once, and exactly once by the *)
(* time its unregister has been processed.                                 *)
(***************************************************************************)
C19_ClosedOnce ==
    \A c \in Clients :
        /\ closes[c] <= 1
        /\ conn[c] = "gone" => closes[c] = 1

(***************************************************************************)
(* C20: no room id maps to an empty set of clients in the Hub.             *)
(***************************************************************************)
C20_NoEmptyHubRoom == \A r \in DOMAIN Rooms : Rooms[r] # {}

(***************************************************************************)
(* C27: a broadcast for room r puts the event exactly once into the        *)
(* channel of every client registered under r whose buffer is not full and *)
(* into no other channel, clients of another room included; registering a  *)
(* client that is registered already leaves the Hub's sets as they are, so *)
(* it does not receive an event twice.                                     *)
(***************************************************************************)
Copies(q, msg) == Cardinality({i \in 1..Len(q) : q[i] = msg})

C27_ExactlyOnce ==
    [][\A r \in TwoRooms :
          (seq' = seq + 1 /\ Broadcast(r)) =>
             \A c \in Clients :
                LET msg == [room |-> r, seq |-> seq']
                IN /\ Copies(Send[c], msg) = 0
                   /\ IF r \in DOMAIN Rooms /\ c \in Rooms[r] /\ Len(Send[c]) < SendCap
                      THEN Copies(Send'[c], msg) = 1
                      ELSE Send'[c] = Send[c]
                   /\ RoomIdOf(c) # r => Send'[c] = Send[c]
                   /\ (RoomIdOf(c) \in DOMAIN Rooms /\ c \in Rooms[RoomIdOf(c)])
                         => Registered(Rooms, c) = Rooms]_vars

\* the last broadcast reached both clients of one room and not the client
\* registered under the other room, which holds an earlier broadcast
C27_Witness ==
    \E c, d, e \in Clients :
        /\ c # d /\ RoomIdOf(c) = RoomIdOf(d) /\ RoomIdOf(e) # RoomIdOf(c)
        /\ RoomIdOf(c) \in DOMAIN Rooms /\ {c, d} \subseteq Rooms[RoomIdOf(c)]
        /\ RoomIdOf(e) \in DOMAIN Rooms /\ e \in Rooms[RoomIdOf(e)]
        /\ Copies(Send[c], [room |-> RoomIdOf(c), seq |-> seq]) = 1
        /\ Copies(Send[d], [room |-> RoomIdOf(c), seq |-> seq]) = 1
        /\ Send[e] # <<>>
        /\ \A i \in 1..Len(Send[e]) : Send[e][i].seq < seq /\ Send[e][i].room = RoomIdOf(e)

(***************************************************************************)
(* C23: room data is written only inside the engine's exclusive critical   *)
(* sections: every step that changes a room or the room table is a call of *)
(* a method that holds e.mu.Lock() (CreateRoom, JoinRoom, Vote, UnVote,    *)
(* ShowVotes, ClearVotes, KickPlayer, LeaveRoom, CleanupOldRooms).         *)
(***************************************************************************)
C23_WrittenUnderLock ==
    [][servers' # servers =>
          (EngineCall \/ \E age \in MaxAges : CleanupOldRooms(age))]_vars

(***************************************************************************)
(* Stale privateId: the key a no longer maps to a player of room id        *)
(***************************************************************************)
Unmapped(S, id, a) == id \in DOMAIN S /\ a \notin DOMAIN PlayersOf(S, id)

(***************************************************************************)
(* C28 as stated: a reconnect that moves a player from key a to another    *)
(* key b leaves a unmapped, and while a is unmapped every Vote, UnVote and *)
(* LeaveRoom presenting a fails as player-unknown and changes nothing.     *)
(***************************************************************************)
C28_StaleIdAsStated ==
    [][/\ \A id \in RoomIds, b \in PrivateIds, r \in RecoveryIds, n \in Names, t \in PlayerTypes :
             (Returned(b) /\ IsReconnect(id, r) /\ JoinRoom(id, r, n, b, t))
                => \A a \in Recovering(PlayersOf(servers, id), r) \ {b} :
                      /\ Unmapped(servers', id, a)
                      /\ VoteErr(servers', id, a) = ErrPlayerNotFound
                      /\ UnVoteErr(servers', id, a) = ErrPlayerNotFound
       /\ \A id \in RoomIds, a \in PrivateIds :
             (ret'.val = NoVal /\ Unmapped(servers, id, a)) =>
                /\ \A v \in VoteValues :
                      Vote(id, a, v) => ret'.err = ErrPlayerNotFound /\ servers' = servers
                /\ UnVote(id, a) => ret'.err = ErrPlayerNotFound /\ servers' = servers
                /\ LeaveRoom(id, a) => ret'.err = NotOk /\ servers' = servers]_vars

(***************************************************************************)
(* C28 amended: as above, except that UnVote presenting the stale key      *)
(* fails with "cannot redact vote once revealed" when the room is          *)
(* revealed, and as player-unknown otherwise.                              *)
(***************************************************************************)
StaleUnVoteErr(S, id) == IF IsShownIn(S, id) THEN ErrUnVoteShown ELSE ErrPlayerNotFound

C28_StaleId ==
    [][/\ \A id \in RoomIds, b \in PrivateIds, r \in RecoveryIds, n \in Names, t \in PlayerTypes :
             (Returned(b) /\ IsReconnect(id, r) /\ JoinRoom(id, r, n, b, t))
                => \A a \in Recovering(PlayersOf(servers, id), r) \ {b} :
                      /\ Unmapped(servers', id, a)
                      /\ VoteErr(servers', id, a) = ErrPlayerNotFound
                      /\ UnVoteErr(servers', id, a) = StaleUnVoteErr(servers', id)
       /\ \A id \in RoomIds, a \in PrivateIds :
             (ret'.val = NoVal /\ Unmapped(servers, id, a)) =>
                /\ \A v \in VoteValues :
                      Vote(id, a, v) => ret'.err = ErrPlayerNotFound /\ servers' = servers
                /\ UnVote(id, a) => ret'.err = StaleUnVoteErr(servers, id) /\ servers' = servers
                /\ LeaveRoom(id, a) => ret'.err = NotOk /\ servers' = servers]_vars

\* a join has just returned the only player of a revealed room, who holds
\* a vote, under key b; the other key maps to no player
C28_Witness ==
    \E id \in RoomIds, a, b \in PrivateIds :
        /\ a # b
        /\ id \in DOMAIN servers
        /\ ret = [err |-> Nil, val |-> b]
        /\ DOMAIN PlayersOf(servers, id) = {b}
        /\ HasVote(servers, id, b)
        /\ IsShownIn(servers, id)

(***************************************************************************)
(* C26: the Hub never gets stuck on a connection: whatever the buffers     *)
(* hold, it can take the register of every connection that is being made,  *)
(* the unregister of every open connection and a broadcast for every room, *)
(* so under fair scheduling each such event is eventually processed.       *)
(***************************************************************************)
C26_HubNeverStuck ==
    /\ \A c \in Clients :
          /\ conn[c] = "none" => ENABLED Register(c)
          /\ conn[c] = "open" => ENABLED Unregister(c)
    /\ \A r \in TwoRooms : seq < MaxSeq => ENABLED Broadcast(r)

(***************************************************************************)
(* Server.handleAction.  Each connection's readPump is one goroutine that  *)
(* serves one request at a time; the handler takes the engine's lock once  *)
(* per engine call and meets the Hub once per broadcast, so it is modelled *)
(* as one step per engine call, direct send or broadcast, and the steps of *)
(* different connections interleave.  pc[c].todo lists the steps left.     *)
(* The Hub handles an event as soon as it has received it.  A message is   *)
(* [room, type].  The deferred Engine.DisconnectPlayer of readPump is not  *)
(* defined in internal/engine; a closed connection is its Unregister.      *)
(***************************************************************************)
\* c.Conn.RemoteAddr().String(): the peer's address, one per connection
RemoteAddr(c) == IF c = "c1" THEN "a" ELSE IF c = "c2" THEN "b" ELSE "c"

\* the connections made for the room of RoomIds
Joiners == {c \in Clients : RoomIdOf(c) \in RoomIds}

Req(action, recoveryId, name, type, vote, publicId) ==
    [action |-> action, recoveryId |-> recoveryId, name |-> name,
     type |-> type, vote |-> vote, publicId |-> publicId]

\* the requests a peer can send: req.Action and the decoded payload
ClientRequests ==
    {Req("join", r, "Ann", t, "", 0) : r \in RecoveryIds, t \in PlayerTypes}
        \cup {Req("vote", "", "", "", "5", 0)}
        \cup {Req(a, "", "", "", "", 0) : a \in {"unvote", "show", "clear", "chat", "leave"}}
        \cup {Req("kick", "", "", "", "", p) : p \in 1..MaxPublicId}
        \cup {Req("changeType", "", "", t, "", 0) : t \in PlayerTypes}

\* the first connection joins as a participant with the token r1 and then
\* sends any request; the second one only joins, with the token r2
RequestsOf(c) ==
    IF c = "c1"
    THEN {req \in ClientRequests :
             req.action = "join" => req.recoveryId = "r1" /\ req.type = Participant}
    ELSE {req \in ClientRequests :
             req.action = "join" /\ req.recoveryId = "r2" /\ req.type = Participant}

\* one step of the clock, long enough for a room to expire
ServerTicks == {SweepMaxAge + 1}

\* what a connection's buffer holds of a HubMessage: the two notices sent
\* to one connection keep their Type, the events of a room count as one kind
Message(r, type) ==
    [room |-> r, type |-> IF type \in {"join_success", "kicked"} THEN type ELSE "event"]

\* the handler of c is about to run this step
At(c, step) == pc[c].todo # <<>> /\ Head(pc[c].todo) = step

\* pc once the handler of c has these steps left; it returns when none is
Then(c, todo) ==
    [pc EXCEPT ![c] = IF todo = <<>> THEN Idle ELSE [@ EXCEPT !.todo = todo, !.seen = {}]]

Advance(c) == Then(c, Tail(pc[c].todo))

\* getPlayerName(c) does not return "Unknown"
Known(c) ==
    /\ PlayerId[c] # ""
    /\ RoomIdOf(c) \in DOMAIN servers
    /\ PlayerId[c] \in DOMAIN servers[RoomIdOf(c)].Players

GetPlayerName(c) ==
    IF PlayerId[c] = "" THEN UNCHANGED engine ELSE GetServer(RoomIdOf(c))

\* variant: the request reaches the switch whoever sent it
HandleActionUnchecked(c, req) ==
    /\ Running
    /\ conn[c] = "open"
    /\ pc[c] = Idle
    /\ GetPlayerName(c)
    /\ pc' = [pc EXCEPT ![c] = [Idle EXCEPT !.todo = <<"op">>, !.req = req]]
    /\ UNCHANGED <<hub, PlayerId, sentClosed>>

\* handleAction up to the switch: the name lookup and the early return
HandleAction(c, req) ==
    /\ Running
    /\ conn[c] = "open"
    /\ pc[c] = Idle
    /\ GetPlayerName(c)
    /\ pc' = IF ~Known(c) /\ req.action # "join"
             THEN pc
             ELSE [pc EXCEPT ![c] = [Idle EXCEPT !.todo = <<"op">>, !.req = req]]
    /\ UNCHANGED <<hub, PlayerId, sentClosed>>

\* the steps the switch leaves once the engine has answered
Followup(action, err) ==
    CASE action = "join" -> IF err = Nil THEN <<"success", "update", "log">> ELSE <<>>
      [] action = "vote" -> IF err = Nil THEN <<"log", "update">> ELSE <<>>
      [] action \in {"unvote", "show"} -> <<"log", "update">>
      [] action = "clear" -> <<"log", "update", "clear">>
      [] action = "kick" -> IF err = Nil THEN <<"kickClient", "update">> ELSE <<>>
      [] action = "changeType" -> IF err = NotOk THEN <<>> ELSE <<"log", "update">>
      [] action = "chat" -> <<"chat">>
      [] action = "leave" -> IF err = Nil THEN <<"update", "log", "forget">> ELSE <<>>

\* the switch of handleAction: the case's call into the engine
Switch(c) ==
    LET id == RoomIdOf(c)
        req == pc[c].req
    IN /\ Running
       /\ At(c, "op")
       /\ CASE req.action = "join" ->
                  JoinRoom(id, req.recoveryId, req.name, RemoteAddr(c), req.type)
            [] req.action = "vote" -> Vote(id, PlayerId[c], req.vote)
            [] req.action = "unvote" -> UnVote(id, PlayerId[c])
            [] req.action = "show" -> ShowVotes(id)
            [] req.action = "clear" -> ClearVotes(id)
            [] req.action = "kick" -> KickPlayer(id, req.publicId)
            [] req.action = "changeType" -> ChangeType(id, PlayerId[c], req.type)
            [] req.action = "chat" -> ret' = [err |-> Nil, val |-> NoVal]
                                         /\ UNCHANGED <<servers, now, usedIds>>
            [] req.action = "leave" -> LeaveRoom(id, PlayerId[c])
       /\ PlayerId' = IF req.action = "join" /\ ret'.err = Nil
                      THEN [PlayerId EXCEPT ![c] = ret'.val]
                      ELSE PlayerId
       /\ pc' = [Then(c, Followup(req.action, ret'.err)) EXCEPT
                    ![c].kicked = IF req.action = "kick" /\ ret'.err = Nil
                                  THEN ret'.val ELSE @]
       /\ UNCHANGED <<hub, sentClosed>>

\* c.Send <- successMsg: blocks while the buffer is full, panics once closed
SendSuccess(c) ==
    /\ Running
    /\ At(c, "success")
    /\ IF closes[c] > 0
       THEN /\ sentClosed' = sentClosed \cup {c}
            /\ UNCHANGED Send
       ELSE /\ ~Full(c)
            /\ Send' = [Send EXCEPT ![c] = Sent(@, Message(RoomIdOf(c), "join_success"))]
            /\ UNCHANGED sentClosed
    /\ pc' = Advance(c)
    /\ UNCHANGED <<engine, Rooms, closes, conn, seq, PlayerId>>

\* kickClient takes h.Mu.RLock() and starts to range over h.Rooms[roomId]
KickClientLock(c) ==
    /\ Running
    /\ At(c, "kickClient")
    /\ pc' = [pc EXCEPT ![c].todo = <<"kickSend">> \o Tail(@),
                        ![c].seen = IF RoomIdOf(c) \in DOMAIN Rooms
                                    THEN Rooms[RoomIdOf(c)] ELSE {}]
    /\ UNCHANGED <<engine, hub, PlayerId, sentClosed>>

\* the loop of kickClient: the select with default on the Send of the
\* client whose PlayerId was kicked.  A broadcast that evicted a client
\* since the loop began wrote the map while it was ranged over: the loop
\* visits the clients it saw when it began or the ones that are left.
KickClient(c) ==
    /\ Running
    /\ At(c, "kickSend")
    /\ \E visited \in {pc[c].seen,
                       IF RoomIdOf(c) \in DOMAIN Rooms THEN Rooms[RoomIdOf(c)] ELSE {}} :
          LET hit == {t \in visited : PlayerId[t] = pc[c].kicked}
          IN /\ sentClosed' = sentClosed \cup {t \in hit : closes[t] > 0}
             /\ Send' = [t \in Clients |->
                           IF t \in hit /\ closes[t] = 0 /\ ~Full(t)
                           THEN Sent(Send[t], Message(RoomIdOf(c), "kicked"))
                           ELSE Send[t]]
    /\ pc' = Advance(c)
    /\ UNCHANGED <<engine, Rooms, closes, conn, seq, PlayerId>>

\* s.Hub.Broadcast <- HubEvent{...}, and the Hub's loop over the room
Submit(c, type) ==
    /\ Running
    /\ seq < MaxEvents
    /\ seq' = seq + 1
    /\ Fanout(RoomIdOf(c), Message(RoomIdOf(c), type))
    /\ pc' = Advance(c)
    /\ UNCHANGED <<conn, PlayerId, sentClosed>>

BroadcastUpdate(c) ==
    /\ At(c, "update")
    /\ GetServer(RoomIdOf(c))
    /\ Submit(c, "update")

BroadcastLog(c) ==
    /\ At(c, "log")
    /\ Submit(c, "log")
    /\ UNCHANGED engine

BroadcastChat(c) ==
    /\ At(c, "chat")
    /\ Submit(c, "chat")
    /\ UNCHANGED engine

\* case "clear": the event sent to the Hub after the two broadcasts
BroadcastClear(c) ==
    /\ At(c, "clear")
    /\ Submit(c, "clear")
    /\ UNCHANGED engine

\* case "leave": c.PlayerId = ""
Forget(c) ==
    /\ Running
    /\ At(c, "forget")
    /\ PlayerId' = [PlayerId EXCEPT ![c] = ""]
    /\ pc' = Advance(c)
    /\ UNCHANGED <<engine, hub, sentClosed>>

\* readPump returns between two requests: c.Hub.Unregister <- c
Disconnect(c) ==
    /\ pc[c] = Idle
    /\ Unregister(c)
    /\ UNCHANGED <<engine, PlayerId, pc, sentClosed>>

NextServer ==
    \/ \E cs \in CardSetSpecs :
          CreateRoom(cs) /\ UNCHANGED <<hist, touched, request, hub, srv>>
    \/ \E c \in Joiners :
          Register(c) /\ UNCHANGED <<engine, hist, touched, request, srv>>
    \/ \E c \in Joiners :
          Disconnect(c) /\ UNCHANGED <<hist, touched, request>>
    \/ \E c \in Joiners :
          Drain(c) /\ UNCHANGED <<engine, hist, touched, request, srv>>
    \/ \E c \in Joiners : \E req \in RequestsOf(c) :
          HandleAction(c, req) /\ UNCHANGED <<hist, touched, request>>
    \/ \E c \in Joiners :
          Switch(c) /\ UNCHANGED <<hist, touched, request>>
    \/ \E c \in Joiners :
          SendSuccess(c) /\ UNCHANGED <<hist, touched, request>>
    \/ \E c \in Joiners :
          KickClientLock(c) /\ UNCHANGED <<hist, touched, request>>
    \/ \E c \in Joiners :
          KickClient(c) /\ UNCHANGED <<hist, touched, request>>
    \/ \E c \in Joiners :
          BroadcastUpdate(c) /\ UNCHANGED <<hist, touched, request>>
    \/ \E c \in Joiners :
          BroadcastLog(c) /\ UNCHANGED <<hist, touched, request>>
    \/ \E c \in Joiners :
          BroadcastChat(c) /\ UNCHANGED <<hist, touched, request>>
    \/ \E c \in Joiners :
          BroadcastClear(c) /\ UNCHANGED <<hist, touched, request>>
    \/ \E c \in Joiners :
          Forget(c) /\ UNCHANGED <<hist, touched, request>>

SpecServer == Init /\ [][NextServer]_vars

(***************************************************************************)
(* SpecConn: one connection to the room, with the clock and the sweep.     *)
(***************************************************************************)
NextConn ==
    \/ \E cs \in CardSetSpecs :
          CreateRoom(cs) /\ UNCHANGED <<hist, touched, request, hub, srv>>
    \/ \E age \in MaxAges :
          CleanupOldRooms(age) /\ UNCHANGED <<hist, touched, request, hub, srv>>
    \/ \E d \in ServerTicks :
          Tick(d) /\ UNCHANGED <<hist, touched, request, hub, srv>>
    \/ Register("c1") /\ UNCHANGED <<engine, hist, touched, request, srv>>
    \/ Disconnect("c1") /\ UNCHANGED <<hist, touched, request>>
    \/ Drain("c1") /\ UNCHANGED <<engine, hist, touched, request, srv>>
    \/ \E req \in ClientRequests :
          HandleAction("c1", req) /\ UNCHANGED <<hist, touched, request>>
    \/ Switch("c1") /\ UNCHANGED <<hist, touched, request>>
    \/ SendSuccess("c1") /\ UNCHANGED <<hist, touched, request>>
    \/ KickClientLock("c1") /\ UNCHANGED <<hist, touched, request>>
    \/ KickClient("c1") /\ UNCHANGED <<hist, touched, request>>
    \/ BroadcastUpdate("c1") /\ UNCHANGED <<hist, touched, request>>
    \/ BroadcastLog("c1") /\ UNCHANGED <<hist, touched, request>>
    \/ BroadcastChat("c1") /\ UNCHANGED <<hist, touched, request>>
    \/ BroadcastClear("c1") /\ UNCHANGED <<hist, touched, request>>
    \/ Forget("c1") /\ UNCHANGED <<hist, touched, request>>

SpecConn == Init /\ [][NextConn]_vars

(***************************************************************************)
(* C21: once the handler of a successful kick has run kickClient, the      *)
(* connection of the kicked player is no longer in the Hub's set of the    *)
(* room, so that the update that follows does not reach it.                *)
(***************************************************************************)
RoomSet(r) == IF r \in DOMAIN Rooms THEN Rooms[r] ELSE {}

C21_KickedEvicted ==
    \A c \in Joiners :
        (pc[c].req.action = "kick" /\ At(c, "update")) =>
            \A t \in Joiners :
                PlayerId[t] = pc[c].kicked => t \notin RoomSet(RoomIdOf(t))

(***************************************************************************)
(* C22: the Hub's map of rooms is never written (register, unregister,     *)
(* eviction in a broadcast) while a kickClient is ranging over it.         *)
(***************************************************************************)
C22_NoMapRace ==
    [][Rooms' # Rooms => Readers = {}]_vars

(***************************************************************************)
(* C24: when the engine answers a request's call with an error, the        *)
(* handler returns: the rooms are as before and no broadcast is left to    *)
(* do for the request.                                                     *)
(***************************************************************************)
C24_ErrorDropsAction ==
    [][\A c \in Joiners :
          (At(c, "op") /\ pc'[c] # pc[c] /\ ret'.err # Nil) =>
              (servers' = servers /\ pc'[c] = Idle)]_vars

(***************************************************************************)
(* C25: when the engine accepts the call of a join, vote, unvote, show,    *)
(* clear, kick, changeType or leave, the handler goes on to broadcast both *)
(* the room's snapshot and an activity-log line.                           *)
(***************************************************************************)
Mutating == {"join", "vote", "unvote", "show", "clear", "kick", "changeType", "leave"}

Steps(todo) == {todo[i] : i \in 1..Len(todo)}

C25_UpdateAndLog ==
    [][\A c \in Joiners :
          (At(c, "op") /\ pc'[c] # pc[c] /\ ret'.err = Nil
              /\ pc[c].req.action \in Mutating) =>
              {"update", "log"} \subseteq Steps(pc'[c].todo)]_vars

(***************************************************************************)
(* C29 as stated: a request other than join on a connection whose PlayerId *)
(* is empty or names no player of the room changes nothing in the engine   *)
(* and broadcasts nothing.                                                 *)
(***************************************************************************)
Stranger(c, req) ==
    /\ pc[c] = Idle
    /\ ~Known(c)
    /\ req.action # "join"

C29_StrangerAsStated ==
    [][\A c \in Joiners : \A req \in ClientRequests :
          (Stranger(c, req) /\ HandleAction(c, req)) =>
              (servers' = servers /\ pc' = pc /\ UNCHANGED hub)]_vars

(***************************************************************************)
(* C29: a request other than join on a connection whose PlayerId is empty  *)
(* or names no player of the room makes the handler return after the name  *)
(* lookup: nothing is broadcast and no room changes, except that the       *)
(* lookup of a non-empty PlayerId in a room that exists sets the room's    *)
(* LastAccess to the current time.                                         *)
(***************************************************************************)
C29_Stranger ==
    [][\A c \in Joiners : \A req \in ClientRequests :
          (Stranger(c, req) /\ HandleAction(c, req)) =>
              /\ pc' = pc
              /\ UNCHANGED hub
              /\ servers' = IF PlayerId[c] # "" /\ RoomIdOf(c) \in DOMAIN servers
                            THEN [servers EXCEPT ![RoomIdOf(c)].LastAccess = now]
                            ELSE servers]_vars

\* a kicked connection is idle; its room has been read since the clock moved
C29_Witness ==
    /\ conn["c1"] = "open"
    /\ pc["c1"] = Idle
    /\ PlayerId["c1"] # ""
    /\ ~Known("c1")
    /\ RoomIdOf("c1") \in DOMAIN servers
    /\ now > 0
    /\ servers[RoomIdOf("c1")].LastAccess = now
    /\ ret = [err |-> Nil, val |-> RoomIdOf("c1")]

(***************************************************************************)
(* C30: no send ever targets a Send channel that has been closed.          *)
(***************************************************************************)
C30_NoSendAfterClose == sentClosed = {}

(***************************************************************************)
(* C31: in every room, every key of the votes map is the publicId of a     *)
(* player who is in the room.                                              *)
(***************************************************************************)
PublicIdKeys(S, id) ==
    {FmtD(PlayersOf(S, id)[k].PublicId) : k \in DOMAIN PlayersOf(S, id)}

C31_VotesOfPlayers ==
    \A id \in DOMAIN servers :
        DOMAIN VotesOf(servers, id) \subseteq PublicIdKeys(servers, id)

(***************************************************************************)
(* C32: in every room, every value of the votes map is one of the cards    *)
(* of the room's cardSet.                                                  *)
(***************************************************************************)
Cards(S, id) ==
    {S[id].CurrentSession.CardSet[i] : i \in 1..Len(S[id].CurrentSession.CardSet)}

C32_VotesAreCards ==
    \A id \in DOMAIN servers :
        \A k \in DOMAIN VotesOf(servers, id) :
            VotesOf(servers, id)[k] \in Cards(servers, id)

(***************************************************************************)
(* SpecRooms: the engine with two rooms.  Every call names one of the two  *)
(* rooms or a room that does not exist.                                    *)
(***************************************************************************)
\* the joins of two connections, each with its own recovery token
Joins == {<<"r1", "a">>, <<"r2", "b">>}

RoomArgs == TwoRooms \cup {UnknownRoom}

\* the calls of the engine that are addressed to the room id
OpOn(id) ==
    \/ \E j \in Joins : JoinRoom(id, j[1], "Ann", j[2], Participant)
    \/ \E k \in PrivateIds : Vote(id, k, "5")
    \/ \E k \in PrivateIds : UnVote(id, k)
    \/ ShowVotes(id)
    \/ ClearVotes(id)
    \/ \E p \in 1..MaxPublicId : KickPlayer(id, p)
    \/ \E k \in PrivateIds : LeaveRoom(id, k)

NextRooms ==
    \/ \E cs \in CardSetSpecs :
          CreateRoomFrom(TwoRooms, cs) /\ UNCHANGED <<hist, touched, request, hub, srv>>
    \/ \E id \in RoomArgs, j \in Joins :
          JoinRoom(id, j[1], "Ann", j[2], Participant)
             /\ UNCHANGED <<hist, touched, request, hub, srv>>
    \/ \E id \in RoomArgs, k \in PrivateIds :
          Vote(id, k, "5") /\ UNCHANGED <<hist, touched, request, hub, srv>>
    \/ \E id \in RoomArgs, k \in PrivateIds :
          UnVote(id, k) /\ UNCHANGED <<hist, touched, request, hub, srv>>
    \/ \E id \in RoomArgs :
          ShowVotes(id) /\ UNCHANGED <<hist, touched, request, hub, srv>>
    \/ \E id \in RoomArgs :
          ClearVotes(id) /\ UNCHANGED <<hist, touched, request, hub, srv>>
    \/ \E id \in RoomArgs, p \in 1..MaxPublicId :
          KickPlayer(id, p) /\ UNCHANGED <<hist, touched, request, hub, srv>>
    \/ \E id \in RoomArgs, k \in PrivateIds :
          LeaveRoom(id, k) /\ UNCHANGED <<hist, touched, request, hub, srv>>

SpecRooms == Init /\ [][NextRooms]_vars

(***************************************************************************)
(* C33: a joinRoom, vote, unvote, showVotes, clearVotes, kickPlayer or     *)
(* leaveRoom addressed to room r creates and removes no room, leaves the   *)
(* players, votes, isShown and cardSet of every other room as they were,   *)
(* and leaves r's own id and cardSet as they were.                         *)
(***************************************************************************)
OtherRoomsKept(r) ==
    \A o \in (DOMAIN servers) \ {r} :
        /\ servers'[o].Players = servers[o].Players
        /\ servers'[o].CurrentSession = servers[o].CurrentSession

OwnKept(r) ==
    r \in DOMAIN servers =>
        /\ servers'[r].Id = servers[r].Id
        /\ servers'[r].CurrentSession.CardSet = servers[r].CurrentSession.CardSet

C33_Frame ==
    [][\A r \in RoomArgs :
          (servers' # servers /\ OpOn(r)) =>
              /\ DOMAIN servers' = DOMAIN servers
              /\ OtherRoomsKept(r)
              /\ OwnKept(r)]_vars

\* the last player of one room has just left it while the other room holds
\* two players, a vote and the reveal
C33_Witness ==
    \E r, o \in TwoRooms :
        /\ r # o
        /\ {r, o} \subseteq DOMAIN servers
        /\ ret = [err |-> Nil, val |-> "Ann"]
        /\ PlayersOf(servers, r) = EmptyMap
        /\ DOMAIN PlayersOf(servers, o) = PrivateIds
        /\ VotesOf(servers, o) # EmptyMap
        /\ IsShownIn(servers, o)
====
